---- MODULE Spec2Model ----
(***************************************************************************)
(* mbed-Keypad: the debounce state machine of class Keypad (keypad.cpp),   *)
(* its three Timeouts, the EventQueue on which listener calls are posted   *)
(* and the thread that dispatches them.                                    *)
(*                                                                         *)
(* The keypad matrix is modelled at the level of its contacts: `held` is   *)
(* the set of buttons whose contact is closed. The rows idle low and the   *)
(* columns are pulled up, so a column is low exactly when a closed contact *)
(* ties it to a row; closing the first contact of a column is a falling    *)
(* edge on it, opening the last one a rising edge. Contact bounce is a     *)
(* contact that opens and closes again within less than a debounce period. *)
(*                                                                         *)
(* Time advances in steps of Quantum milliseconds; a Timeout whose time    *)
(* has come fires before time advances again. Interrupt and timer handlers *)
(* run to completion, one at a time (ISR context).                         *)
(***************************************************************************)
EXTENDS Integers, Sequences, FiniteSets, TLC

\* ---------------------------------------------------------------- constants

\* keypad.cpp:4, milliseconds
DEBOUNCE_THRESH == 60
\* keypad.cpp:7, milliseconds
LONG_PRESS_THRESH == 300

\* Grid of the model (the library's default is 4 x 4)
KEYPAD_NUM_ROWS == 2
KEYPAD_NUM_COLS == 2

\* Contacts closed at the same time
MaxHeld == 2
\* Invocations posted and not yet run, at the start of a gesture
MaxQueue == 4
\* Thread objects that initialize() creates, one after the other
MaxThreads == 2
\* Distinct application callbacks
NumListeners == 2
KEYPAD_BUFFER_LEN == 2

\* Time advances by half a debounce period
Quantum == DEBOUNCE_THRESH \div 2

Rows == 0 .. (KEYPAD_NUM_ROWS - 1)
Cols == 0 .. (KEYPAD_NUM_COLS - 1)
Keys == Rows \X Cols
Kinds == {"press", "release", "longpress"}
ThreadIds == 1 .. MaxThreads
\* 0 is the empty Callback
Listeners == 1 .. NumListeners

\* enum ButtonState
RELEASED == "RELEASED"
PRESS_BOUNCING == "PRESS_BOUNCING"
PRESSED == "PRESSED"
RELEASE_BOUNCING == "RELEASE_BOUNCING"
LONG_PRESSED == "LONG_PRESSED"

VARIABLES
    state,          \* Keypad::state
    pressedRow,     \* Keypad::pressedRow
    pressedCol,     \* Keypad::pressedCol
    toRowScan,      \* Keypad::toRowScan: [armed, left, col]
    toButtonScan,   \* Keypad::toButtonScan: [armed, left]
    toLongPressed,  \* Keypad::toLongPressed: [armed, left]
    cbEnabled,      \* pressCbEnabled, releaseCbEnabled, longpressCbEnabled
    onCb,           \* onPress, onRelease, onLongpress
    threadHandle,   \* Keypad::threadHandle: 0 is nullptr
    queue,          \* Keypad::queue: the posted invocations, oldest first
    breakReq,       \* Keypad::queue: break_dispatch() was called
    threads,        \* the Thread objects: [pc, batch, cur]
    appPc,          \* the application thread: "idle", or "join" inside finalize()
    held,           \* the closed contacts
    sweep           \* what the column read for each driven row in the last row scan

\* What an observer of the column edges, of time and of the posted invocations
\* has seen (they record; no handler reads them)
VARIABLES
    trigCol,        \* the column whose falling edge last arrived in state RELEASED
    phase,          \* "idle", "pressed" or "long": by the last invocations posted
    lastPos,        \* <<r, c>> of the last Pressed invocation posted
    pressesOpen,    \* Pressed invocations posted since the last Released one (up to 2)
    dropped,        \* contacts closed while another button was tracked, still closed
    age,            \* ms since the last Pressed invocation was posted
    firm,           \* the contact at lastPos has been closed ever since
    earlyRel,       \* that contact opened before LONG_PRESS_THRESH
    cleanRel,       \* and its column has been high ever since
    relAge,         \* ms since cleanRel
    burst,          \* a train of edges of one contact: [live, key, edges, steady, presses]
    fifo,           \* the invocations posted and not yet started, oldest first
    carried,        \* how many of them were posted before the last finalize() returned
    owed,           \* how many of them were posted before the last finalize() was called
    parked,         \* how many posted and not run to their end, up to the last one
                    \* posted while the keypad was not initialized
    call,           \* the call of initialize()/finalize() that returned in the last step
    up,             \* the last call that returned true was an initialize()
    reg             \* the last register_on*/remove_on* call: [op, kind, last, skipped]

coreVars == <<state, pressedRow, pressedCol, toRowScan, toButtonScan, toLongPressed,
              cbEnabled, onCb, threadHandle, queue, breakReq, threads, appPc, held, sweep>>

\* class KeypadBlocking: its three buffers, and what the last poll operation
\* gave back to the application
VARIABLES
    pressBuf,       \* CircularBuffer<button_coord, KEYPAD_BUFFER_LEN>, oldest first
    releaseBuf,
    longpressBuf,
    got             \* [ok, n, r, c]: the bool or the count returned, *rptr and *cptr

\* What an observer of the buffers has seen
VARIABLES
    round,          \* [kind, pushed, taken, mixed]: since that buffer was last empty
    peeked,         \* the kind whose peek has just given an entry, or "none"
    bufAtCall,      \* the three buffers as they were when finalize() was called
    mark,           \* a posted invocation followed to its buffer: [pos, inv]
    conf,           \* per kind, the events confirmed and neither popped nor overwritten
    poll,           \* [op, kind]: the operation on a buffer made in the last step
    live            \* per kind, the entries pushed and neither popped nor overwritten

bufVars == <<pressBuf, releaseBuf, longpressBuf>>
bufObsVars == <<round, peeked>>
deliveryVars == <<bufAtCall, mark, conf>>
pollVars == <<poll, live>>
blockingVars == <<bufVars, got, bufObsVars, deliveryVars, pollVars>>

\* ------------------------------------------------------------------ helpers

Off == [armed |-> FALSE, left |-> 0]
Armed(ms) == [armed |-> TRUE, left |-> ms]
Due(t) == t.armed /\ t.left = 0

\* Timeout::attach(callback(row_scan_handler<curCol>), DEBOUNCE_THRESH)
RowScanOff == [armed |-> FALSE, left |-> 0, col |-> 0]
RowScanArmed(c) == [armed |-> TRUE, left |-> DEBOUNCE_THRESH, col |-> c]

NoThread == [pc |-> "none", batch |-> <<>>, cur |-> <<>>]

\* The column is low: a closed contact ties it to a row, and the rows idle low
ColLow(h, c) == \E k \in h : k[2] = c

\* The rows tied to column c through closed contacts, directly or through
\* other columns (n rounds of closure)
RECURSIVE NetRows(_, _, _)
NetRows(h, cols, n) ==
    LET rows == {k[1] : k \in {x \in h : x[2] \in cols}}
        more == cols \cup {k[2] : k \in {x \in h : x[1] \in rows}}
    IN  IF n = 0 \/ more = cols THEN rows ELSE NetRows(h, more, n - 1)

\* col[c].read() while row i alone is driven high: the pull-up wins when the
\* column is tied to no row; a column tied to rows driven both ways may read
\* either level
ColReads(h, c, i) ==
    LET rows == NetRows(h, {c}, MaxHeld)
    IN  IF rows = {} THEN {1}
        ELSE IF rows = {i} THEN {1}
        ELSE IF i \notin rows THEN {0}
        ELSE {0, 1}

\* The readings a sweep of column c can meet
Sweeps(h, c) == {rd \in [Rows -> {0, 1}] : \A i \in Rows : rd[i] \in ColReads(h, c, i)}

\* An invocation posted on the queue: the lambda's captures, and (reg) the
\* listener that was stored when it was posted
Invocation(k, r, c) == [kind |-> k, r |-> r, c |-> c, reg |-> onCb[k]]

\* Invocations posted and not yet started
RECURSIVE Batched(_)
Batched(n) == IF n = 0 THEN 0 ELSE Len(threads[n].batch) + Batched(n - 1)
InFlight == Len(queue) + Batched(MaxThreads)

\* EventQueue::call: the invocation goes behind those already posted
Post(q, inv) == Append(q, inv)

\* FirstOn without the return that ends the loop: the last row read high wins
LastOn(rd) == CHOOSE i \in Rows : rd[i] = 1 /\ \A j \in Rows : j > i => rd[j] = 0

\* The loop of row_scan_handler: the first row whose reading is high
FirstOn(rd) == CHOOSE i \in Rows : rd[i] = 1 /\ \A j \in Rows : j < i => rd[j] = 0

\* ----------------------------------------------------- the state machine

machineVars == <<state, pressedRow, pressedCol, toRowScan, toButtonScan, toLongPressed, queue>>

\* fall_handler without its test of the state
fall_handler_unguarded(curCol) ==
    /\ state' = PRESS_BOUNCING
    /\ toRowScan' = [armed |-> TRUE, left |-> DEBOUNCE_THRESH, col |-> curCol]
    /\ UNCHANGED <<pressedRow, pressedCol, toButtonScan, toLongPressed, queue>>

\* Keypad::fall_handler<curCol>
fall_handler(curCol) ==
    IF state # RELEASED
    THEN UNCHANGED machineVars
    ELSE /\ state' = PRESS_BOUNCING
         /\ toRowScan' = RowScanArmed(curCol)
         /\ UNCHANGED <<pressedRow, pressedCol, toButtonScan, toLongPressed, queue>>

\* rise_handler without its test of the state
rise_handler_unguarded(curCol) ==
    /\ state' = RELEASE_BOUNCING
    /\ toButtonScan' = [armed |-> TRUE, left |-> DEBOUNCE_THRESH]
    /\ UNCHANGED <<pressedRow, pressedCol, toRowScan, toLongPressed, queue>>

\* Keypad::rise_handler<curCol>
rise_handler(curCol) ==
    IF state # PRESSED /\ state # LONG_PRESSED
    THEN UNCHANGED machineVars
    ELSE /\ state' = RELEASE_BOUNCING
         /\ toButtonScan' = Armed(DEBOUNCE_THRESH)
         /\ UNCHANGED <<pressedRow, pressedCol, toRowScan, toLongPressed, queue>>

\* Keypad::row_scan_handler<curCol>, rd[i] being col[curCol].read() with row i high
row_scan_handler(curCol, rd) ==
    IF state # PRESS_BOUNCING
    THEN UNCHANGED <<state, pressedRow, pressedCol, toButtonScan, toLongPressed, queue>>
    ELSE IF \E i \in Rows : rd[i] = 1
    THEN /\ state' = PRESSED
         /\ pressedRow' = FirstOn(rd)
         /\ pressedCol' = curCol
         /\ toLongPressed' = Armed(LONG_PRESS_THRESH)
         /\ queue' = IF cbEnabled["press"]
                     THEN Post(queue, Invocation("press", FirstOn(rd), curCol))
                     ELSE queue
         /\ UNCHANGED toButtonScan
    ELSE /\ state' = RELEASED
         /\ UNCHANGED <<pressedRow, pressedCol, toButtonScan, toLongPressed, queue>>

\* button_scan_handler confirming the release without posting Released
button_scan_handler_silent ==
    IF state # RELEASE_BOUNCING
    THEN UNCHANGED <<state, pressedRow, pressedCol, toRowScan, toLongPressed, queue>>
    ELSE IF ColLow(held, pressedCol)
    THEN /\ state' = PRESSED
         /\ UNCHANGED <<pressedRow, pressedCol, toRowScan, toLongPressed, queue>>
    ELSE /\ state' = RELEASED
         /\ toLongPressed' = Off
         /\ UNCHANGED <<pressedRow, pressedCol, toRowScan, queue>>

\* button_scan_handler zeroing pressedRow and pressedCol as it confirms the release
button_scan_handler_clears ==
    IF state # RELEASE_BOUNCING
    THEN UNCHANGED <<state, pressedRow, pressedCol, toRowScan, toLongPressed, queue>>
    ELSE IF ColLow(held, pressedCol)
    THEN /\ state' = PRESSED
         /\ UNCHANGED <<pressedRow, pressedCol, toRowScan, toLongPressed, queue>>
    ELSE /\ state' = RELEASED
         /\ pressedRow' = 0
         /\ pressedCol' = 0
         /\ toLongPressed' = IF toLongPressed.armed /\ toLongPressed.left > 0
                             THEN Off
                             ELSE toLongPressed
         /\ queue' = IF cbEnabled["release"]
                     THEN Post(queue, Invocation("release", pressedRow, pressedCol))
                     ELSE queue
         /\ UNCHANGED toRowScan

\* button_scan_handler confirming the release whatever the column reads
button_scan_handler_blind ==
    IF state # RELEASE_BOUNCING
    THEN UNCHANGED <<state, pressedRow, pressedCol, toRowScan, toLongPressed, queue>>
    ELSE /\ state' = RELEASED
         /\ toLongPressed' = IF toLongPressed.armed /\ toLongPressed.left > 0
                             THEN Off
                             ELSE toLongPressed
         /\ queue' = IF cbEnabled["release"]
                     THEN Post(queue, Invocation("release", pressedRow, pressedCol))
                     ELSE queue
         /\ UNCHANGED <<pressedRow, pressedCol, toRowScan>>

\* button_scan_handler confirming the release without detaching toLongPressed
button_scan_handler_keeps_timer ==
    IF state # RELEASE_BOUNCING
    THEN UNCHANGED <<state, pressedRow, pressedCol, toRowScan, toLongPressed, queue>>
    ELSE IF ColLow(held, pressedCol)
    THEN /\ state' = PRESSED
         /\ UNCHANGED <<pressedRow, pressedCol, toRowScan, toLongPressed, queue>>
    ELSE /\ state' = RELEASED
         /\ queue' = IF cbEnabled["release"]
                     THEN Post(queue, Invocation("release", pressedRow, pressedCol))
                     ELSE queue
         /\ UNCHANGED <<pressedRow, pressedCol, toRowScan, toLongPressed>>

\* Keypad::button_scan_handler
button_scan_handler ==
    IF state # RELEASE_BOUNCING
    THEN UNCHANGED <<state, pressedRow, pressedCol, toRowScan, toLongPressed, queue>>
    ELSE IF ColLow(held, pressedCol)
    THEN /\ state' = PRESSED
         /\ UNCHANGED <<pressedRow, pressedCol, toRowScan, toLongPressed, queue>>
    ELSE /\ state' = RELEASED
         /\ toLongPressed' = IF toLongPressed.armed /\ toLongPressed.left > 0
                             THEN Off
                             ELSE toLongPressed
         /\ queue' = IF cbEnabled["release"]
                     THEN Post(queue, Invocation("release", pressedRow, pressedCol))
                     ELSE queue
         /\ UNCHANGED <<pressedRow, pressedCol, toRowScan>>

\* long_press_handler without its test of the state
long_press_handler_unguarded ==
    /\ state' = LONG_PRESSED
    /\ queue' = IF cbEnabled["longpress"]
                THEN Append(queue, [kind |-> "longpress", r |-> pressedRow, c |-> pressedCol,
                                    reg |-> onCb["longpress"]])
                ELSE queue
    /\ UNCHANGED <<pressedRow, pressedCol, toRowScan, toButtonScan>>

\* long_press_handler leaving the state alone when no listener is enabled
long_press_handler_needs_listener ==
    IF state # PRESSED \/ ~cbEnabled["longpress"]
    THEN UNCHANGED <<state, pressedRow, pressedCol, toRowScan, toButtonScan, queue>>
    ELSE /\ state' = LONG_PRESSED
         /\ queue' = Post(queue, Invocation("longpress", pressedRow, pressedCol))
         /\ UNCHANGED <<pressedRow, pressedCol, toRowScan, toButtonScan>>

\* Keypad::long_press_handler
long_press_handler ==
    IF state # PRESSED
    THEN UNCHANGED <<state, pressedRow, pressedCol, toRowScan, toButtonScan, queue>>
    ELSE /\ state' = LONG_PRESSED
         /\ queue' = IF cbEnabled["longpress"]
                     THEN Post(queue, Invocation("longpress", pressedRow, pressedCol))
                     ELSE queue
         /\ UNCHANGED <<pressedRow, pressedCol, toRowScan, toButtonScan>>

\* The handlers as functions of the members they read: m holds state, pressedRow,
\* pressedCol and the three Timeouts, en the three *CbEnabled flags; posts is the
\* kind handed to queue.call, if any
MachineOf == [state |-> state, pressedRow |-> pressedRow, pressedCol |-> pressedCol,
              toRowScan |-> toRowScan, toButtonScan |-> toButtonScan,
              toLongPressed |-> toLongPressed, posts |-> <<>>]

\* Keypad::fall_handler<curCol>
fall_handler_of(m, curCol) ==
    IF m.state # RELEASED
    THEN m
    ELSE [m EXCEPT !.state = PRESS_BOUNCING, !.toRowScan = RowScanArmed(curCol)]

\* Keypad::rise_handler<curCol>
rise_handler_of(m, curCol) ==
    IF m.state # PRESSED /\ m.state # LONG_PRESSED
    THEN m
    ELSE [m EXCEPT !.state = RELEASE_BOUNCING, !.toButtonScan = Armed(DEBOUNCE_THRESH)]

\* Keypad::row_scan_handler<curCol>
row_scan_handler_of(m, en, curCol, rd) ==
    IF m.state # PRESS_BOUNCING
    THEN m
    ELSE IF \E i \in Rows : rd[i] = 1
    THEN [m EXCEPT !.state = PRESSED,
                   !.pressedRow = FirstOn(rd),
                   !.pressedCol = curCol,
                   !.toLongPressed = Armed(LONG_PRESS_THRESH),
                   !.posts = IF en["press"] THEN <<"press">> ELSE <<>>]
    ELSE [m EXCEPT !.state = RELEASED]

\* Keypad::button_scan_handler, h being the contacts closed
button_scan_handler_of(m, en, h) ==
    IF m.state # RELEASE_BOUNCING
    THEN m
    ELSE IF ColLow(h, m.pressedCol)
    THEN [m EXCEPT !.state = PRESSED]
    ELSE [m EXCEPT !.state = RELEASED,
                   !.toLongPressed = IF @.armed /\ @.left > 0 THEN Off ELSE @,
                   !.posts = IF en["release"] THEN <<"release">> ELSE <<>>]

\* Keypad::long_press_handler
long_press_handler_of(m, en) ==
    IF m.state # PRESSED
    THEN m
    ELSE [m EXCEPT !.state = LONG_PRESSED,
                   !.posts = IF en["longpress"] THEN <<"longpress">> ELSE <<>>]

apiVars == <<cbEnabled, onCb, threadHandle, breakReq, threads, appPc>>

\* ------------------------------------------- interrupts, timers and time

\* A contact closes; the first one of its column makes the column fall.
\* A gesture posts at most three invocations: a new one starts only with
\* room for them (the bound of the model on the queue).
Close(k) ==
    /\ k \notin held
    /\ Cardinality(held) < MaxHeld
    /\ (state = RELEASED /\ ~ColLow(held, k[2])) => InFlight + 3 <= MaxQueue
    /\ held' = held \cup {k}
    /\ IF ColLow(held, k[2]) THEN UNCHANGED machineVars ELSE fall_handler(k[2])
    /\ UNCHANGED <<apiVars, sweep>>

\* A contact opens; the last one of its column makes the column rise
Open(k) ==
    /\ k \in held
    /\ held' = held \ {k}
    /\ IF ColLow(held \ {k}, k[2]) THEN UNCHANGED machineVars ELSE rise_handler(k[2])
    /\ UNCHANGED <<apiVars, sweep>>

\* A listener is executing on the thread
InListener == \E t \in ThreadIds : threads[t].cur # <<>>

\* (variant: toRowScan waits for the listener that is executing to return)
RowScanFires_waits ==
    /\ ~InListener
    /\ Due(toRowScan)
    /\ toRowScan' = RowScanOff
    /\ \E rd \in Sweeps(held, toRowScan.col) :
          /\ row_scan_handler(toRowScan.col, rd)
          /\ sweep' = rd
    /\ UNCHANGED <<apiVars, held>>

\* toRowScan fires
RowScanFires ==
    /\ Due(toRowScan)
    /\ toRowScan' = RowScanOff
    /\ \E rd \in Sweeps(held, toRowScan.col) :
          /\ row_scan_handler(toRowScan.col, rd)
          /\ sweep' = rd
    /\ UNCHANGED <<apiVars, held>>

\* toButtonScan fires
ButtonScanFires ==
    /\ Due(toButtonScan)
    /\ toButtonScan' = Off
    /\ button_scan_handler
    /\ UNCHANGED <<apiVars, held, sweep>>

\* toLongPressed fires
LongPressFires ==
    /\ Due(toLongPressed)
    /\ toLongPressed' = Off
    /\ long_press_handler
    /\ UNCHANGED <<apiVars, held, sweep>>

Elapse(t) == IF t.armed THEN [t EXCEPT !.left = IF @ > Quantum THEN @ - Quantum ELSE 0] ELSE t

\* Quantum milliseconds pass; no Timeout is overdue
Tick ==
    /\ ~Due(toRowScan) /\ ~Due(toButtonScan) /\ ~Due(toLongPressed)
    /\ toRowScan.armed \/ toButtonScan.armed \/ toLongPressed.armed
    /\ toRowScan' = Elapse(toRowScan)
    /\ toButtonScan' = Elapse(toButtonScan)
    /\ toLongPressed' = Elapse(toLongPressed)
    /\ UNCHANGED <<state, pressedRow, pressedCol, queue, apiVars, held, sweep>>

\* ------------------------------------------------------- the public API

envVars == <<state, pressedRow, pressedCol, toRowScan, toButtonScan, toLongPressed, held, sweep>>

\* Keypad::is_initialized
is_initialized == threadHandle # 0

\* Keypad::register_onpress
register_onpress(cb) ==
    /\ onCb' = [onCb EXCEPT !["press"] = cb]
    /\ cbEnabled' = [cbEnabled EXCEPT !["press"] = TRUE]
    /\ UNCHANGED <<envVars, queue, threadHandle, breakReq, threads, appPc>>

\* (variant: remove_onpress empties the stored Callback)
remove_onpress_empties ==
    /\ cbEnabled' = [cbEnabled EXCEPT !["press"] = FALSE]
    /\ onCb' = [onCb EXCEPT !["press"] = 0]
    /\ UNCHANGED <<envVars, queue, threadHandle, breakReq, threads, appPc>>

\* Keypad::remove_onpress
remove_onpress ==
    /\ cbEnabled' = [cbEnabled EXCEPT !["press"] = FALSE]
    /\ UNCHANGED <<envVars, queue, onCb, threadHandle, breakReq, threads, appPc>>

\* Keypad::register_onrelease
register_onrelease(cb) ==
    /\ onCb' = [onCb EXCEPT !["release"] = cb]
    /\ cbEnabled' = [cbEnabled EXCEPT !["release"] = TRUE]
    /\ UNCHANGED <<envVars, queue, threadHandle, breakReq, threads, appPc>>

\* Keypad::is_onpress_registered
is_onpress_registered == cbEnabled["press"]

\* (variant: remove_onrelease leaves the listener enabled)
remove_onrelease_keeps ==
    UNCHANGED <<envVars, cbEnabled, queue, onCb, threadHandle, breakReq, threads, appPc>>

\* Keypad::remove_onrelease
remove_onrelease ==
    /\ cbEnabled' = [cbEnabled EXCEPT !["release"] = FALSE]
    /\ UNCHANGED <<envVars, queue, onCb, threadHandle, breakReq, threads, appPc>>

\* Keypad::register_onlongpress
register_onlongpress(cb) ==
    /\ onCb' = [onCb EXCEPT !["longpress"] = cb]
    /\ cbEnabled' = [cbEnabled EXCEPT !["longpress"] = TRUE]
    /\ UNCHANGED <<envVars, queue, threadHandle, breakReq, threads, appPc>>

\* Keypad::remove_onlongpress
remove_onlongpress ==
    /\ cbEnabled' = [cbEnabled EXCEPT !["longpress"] = FALSE]
    /\ UNCHANGED <<envVars, queue, onCb, threadHandle, breakReq, threads, appPc>>

\* Keypad::is_onrelease_registered
is_onrelease_registered == cbEnabled["release"]

\* Keypad::is_onlongpress_registered
is_onlongpress_registered == cbEnabled["longpress"]

\* is_onX_registered, by kind
is_registered(k) ==
    CASE k = "press" -> is_onpress_registered
      [] k = "release" -> is_onrelease_registered
      [] k = "longpress" -> is_onlongpress_registered

FreeThreads == {t \in ThreadIds : threads[t].pc = "none"}

\* (variant: initialize does not test is_initialized)
initialize_unchecked ==
    /\ appPc = "idle"
    /\ \/ UNCHANGED <<threadHandle, threads>>
       \/ /\ FreeThreads # {}
          /\ LET t == CHOOSE x \in FreeThreads : \A y \in FreeThreads : x <= y
             IN  /\ threadHandle' = t
                 /\ threads' = [threads EXCEPT ![t] = [pc |-> "start", batch |-> <<>>, cur |-> <<>>]]
    /\ UNCHANGED <<envVars, queue, cbEnabled, onCb, breakReq, appPc>>

\* (variant: a Thread that fails to start is not deleted)
initialize_leaks ==
    /\ appPc = "idle"
    /\ IF is_initialized
       THEN UNCHANGED <<threadHandle, threads>>
       ELSE \/ UNCHANGED <<threadHandle, threads>>
            \/ /\ FreeThreads # {}
               /\ LET t == CHOOSE x \in FreeThreads : \A y \in FreeThreads : x <= y
                  IN  \/ /\ threadHandle' = t
                         /\ threads' = [threads EXCEPT ![t] = [pc |-> "start", batch |-> <<>>, cur |-> <<>>]]
                      \/ /\ threadHandle' = threadHandle
                         /\ threads' = [threads EXCEPT ![t] = [pc |-> "exited", batch |-> <<>>, cur |-> <<>>]]
    /\ UNCHANGED <<envVars, queue, cbEnabled, onCb, breakReq, appPc>>

\* (variant: a successful initialize starts with an empty queue)
initialize_flushes ==
    /\ appPc = "idle"
    /\ IF is_initialized
       THEN UNCHANGED <<threadHandle, threads, queue>>
       ELSE \/ UNCHANGED <<threadHandle, threads, queue>>
            \/ /\ FreeThreads # {}
               /\ queue' = <<>>
               /\ LET t == CHOOSE x \in FreeThreads : \A y \in FreeThreads : x <= y
                  IN  /\ threadHandle' = t
                      /\ threads' = [threads EXCEPT ![t] = [pc |-> "start", batch |-> <<>>, cur |-> <<>>]]
    /\ UNCHANGED <<envVars, cbEnabled, onCb, breakReq, appPc>>

\* Keypad::initialize: false when already initialized, or when the Thread
\* cannot be allocated or started; otherwise the new thread enters
\* dispatch_events
initialize ==
    /\ appPc = "idle"
    /\ IF is_initialized
       THEN UNCHANGED <<threadHandle, threads>>
       ELSE \/ UNCHANGED <<threadHandle, threads>>
            \/ /\ FreeThreads # {}
               /\ LET t == CHOOSE x \in FreeThreads : \A y \in FreeThreads : x <= y
                  IN  /\ threadHandle' = t
                      /\ threads' = [threads EXCEPT ![t] = [pc |-> "start", batch |-> <<>>, cur |-> <<>>]]
    /\ UNCHANGED <<envVars, queue, cbEnabled, onCb, breakReq, appPc>>

\* (variant: finalize puts the state machine back to RELEASED and detaches
\* the timers)
finalize_resets ==
    /\ appPc = "idle"
    /\ IF ~is_initialized
       THEN UNCHANGED <<breakReq, appPc, state, toRowScan, toButtonScan, toLongPressed>>
       ELSE /\ breakReq' = TRUE
            /\ appPc' = "join"
            /\ state' = RELEASED
            /\ toRowScan' = RowScanOff
            /\ toButtonScan' = Off
            /\ toLongPressed' = Off
    /\ UNCHANGED <<pressedRow, pressedCol, held, sweep, queue, cbEnabled, onCb, threadHandle, threads>>

\* Keypad::finalize up to threadHandle->join(): false when not initialized,
\* otherwise queue.break_dispatch() and the caller blocks in join()
finalize ==
    /\ appPc = "idle"
    /\ IF ~is_initialized
       THEN UNCHANGED <<breakReq, appPc>>
       ELSE /\ breakReq' = TRUE
            /\ appPc' = "join"
    /\ UNCHANGED <<envVars, queue, cbEnabled, onCb, threadHandle, threads>>

\* (variant: join() returns whatever the thread is doing)
finalize_joined_nowait ==
    /\ appPc = "join"
    /\ threads' = [threads EXCEPT ![threadHandle].pc = "deleted"]
    /\ threadHandle' = 0
    /\ appPc' = "idle"
    /\ UNCHANGED <<envVars, queue, cbEnabled, onCb, breakReq>>

\* (variant: finalize leaves threadHandle as it is)
finalize_joined_keeps_handle ==
    /\ appPc = "join"
    /\ threads[threadHandle].pc = "exited"
    /\ threads' = [threads EXCEPT ![threadHandle].pc = "deleted"]
    /\ appPc' = "idle"
    /\ UNCHANGED <<envVars, queue, cbEnabled, onCb, breakReq, threadHandle>>

\* Keypad::finalize from the return of join(): the thread has ended, the
\* Thread is deleted
finalize_joined ==
    /\ appPc = "join"
    /\ threads[threadHandle].pc = "exited"
    /\ threads' = [threads EXCEPT ![threadHandle].pc = "deleted"]
    /\ threadHandle' = 0
    /\ appPc' = "idle"
    /\ UNCHANGED <<envVars, queue, cbEnabled, onCb, breakReq>>

\* What Keypad::initialize returns: true only past a successful start()
initialize_returns == ~is_initialized /\ threadHandle' # 0

\* What Keypad::finalize returns at once when the keypad is not initialized,
\* and what it returns after join()
finalize_returns == FALSE
finalize_joined_returns == TRUE

\* --------------------------------- Keypad::dispatch_events on thread t

\* The invocation the dispatch loop runs next
\* (variant: the thread takes what was posted last)
NextInvocation_newest(batch) == batch[Len(batch)]

NextInvocation(batch) == Head(batch)

\* The Callback the posted lambda calls: the member, read when the lambda runs
Callee(inv) == onCb[inv.kind]

\* dispatch_forever takes what has been posted: on entry whatever the queue
\* holds, afterwards when it wakes up for a posted event and no break was
\* requested
dequeue(t) ==
    /\ \/ threads[t].pc = "start"
       \/ threads[t].pc = "idle" /\ ~breakReq /\ queue # <<>>
    /\ threads' = [threads EXCEPT ![t].pc = IF queue = <<>> THEN "idle" ELSE "run",
                                  ![t].batch = queue]
    /\ queue' = <<>>
    /\ UNCHANGED <<envVars, cbEnabled, onCb, threadHandle, breakReq, appPc>>

\* The next posted lambda starts: it calls the listener
invoke(t) ==
    /\ threads[t].pc = "run"
    /\ threads[t].cur = <<>>
    /\ threads[t].batch # <<>>
    /\ LET inv == NextInvocation(threads[t].batch)
       IN  threads' = [threads EXCEPT
               ![t].cur = <<[kind |-> inv.kind, r |-> inv.r, c |-> inv.c,
                             reg |-> inv.reg, listener |-> Callee(inv)]>>,
               ![t].batch = Tail(@)]
    /\ UNCHANGED <<envVars, queue, cbEnabled, onCb, threadHandle, breakReq, appPc>>

\* The listener returns
listener_returns(t) ==
    /\ threads[t].cur # <<>>
    /\ threads' = [threads EXCEPT
           ![t].cur = <<>>,
           ![t].pc = IF threads[t].batch = <<>> THEN "idle" ELSE "run"]
    /\ UNCHANGED <<envVars, queue, cbEnabled, onCb, threadHandle, breakReq, appPc>>

\* dispatch_forever sees break_dispatch() and returns: the thread ends
break_seen(t) ==
    /\ threads[t].pc = "idle"
    /\ breakReq
    /\ breakReq' = FALSE
    /\ threads' = [threads EXCEPT ![t].pc = "exited"]
    /\ UNCHANGED <<envVars, queue, cbEnabled, onCb, threadHandle, appPc>>

\* ------------------------------------------------------ class KeypadBlocking

\* CircularBuffer::push (mbed OS): when the buffer is full the oldest entry
\* makes room
\* (variant: a full buffer refuses the new entry)
Push_refused(b, x) == IF Len(b) = KEYPAD_BUFFER_LEN THEN b ELSE Append(b, x)

Push(b, x) == IF Len(b) = KEYPAD_BUFFER_LEN THEN Append(Tail(b), x) ELSE Append(b, x)

BufOf(k) == CASE k = "press" -> pressBuf
              [] k = "release" -> releaseBuf
              [] k = "longpress" -> longpressBuf

BufOfNext(k) == CASE k = "press" -> pressBuf'
                  [] k = "release" -> releaseBuf'
                  [] k = "longpress" -> longpressBuf'

\* KeypadBlocking::push_press, push_release, push_longpress: what the call does
\* to the buffers
push_press(r, c) ==
    pressBuf' = Push(pressBuf, <<r, c>>) /\ UNCHANGED <<releaseBuf, longpressBuf>>

push_release(r, c) ==
    releaseBuf' = Push(releaseBuf, <<r, c>>) /\ UNCHANGED <<pressBuf, longpressBuf>>

push_longpress(r, c) ==
    longpressBuf' = Push(longpressBuf, <<r, c>>) /\ UNCHANGED <<pressBuf, releaseBuf>>

\* (variant: push_longpress registered for Released, push_release for
\* LongPressed)
PushListener_crossed(k, r, c) ==
    CASE k = "press" -> push_press(r, c)
      [] k = "release" -> push_longpress(r, c)
      [] k = "longpress" -> push_release(r, c)

\* The listener KeypadBlocking::KeypadBlocking registered for each kind
PushListener(k, r, c) ==
    CASE k = "press" -> push_press(r, c)
      [] k = "release" -> push_release(r, c)
      [] k = "longpress" -> push_longpress(r, c)

\* The thread runs the listener of KeypadBlocking to its end
listener_pushes(t) ==
    /\ listener_returns(t)
    /\ LET inv == threads[t].cur[1] IN PushListener(inv.kind, inv.r, inv.c)
    /\ UNCHANGED got

\* KeypadBlocking::initialize, finalize: those of the keypad
blocking_initialize == initialize /\ UNCHANGED <<bufVars, got>>

\* (variant: finalize empties the buffers)
blocking_finalize_clears ==
    /\ finalize
    /\ pressBuf' = <<>> /\ releaseBuf' = <<>> /\ longpressBuf' = <<>>
    /\ UNCHANGED got

blocking_finalize == finalize /\ UNCHANGED <<bufVars, got>>

blocking_finalize_joined == finalize_joined /\ UNCHANGED <<bufVars, got>>

NoGot == [ok |-> FALSE, n |-> 0, r |-> 0, c |-> 0]

\* KeypadBlocking::press_available, release_available, longpress_available
press_available ==
    got' = [got EXCEPT !.n = Len(pressBuf)] /\ UNCHANGED <<coreVars, bufVars>>

\* (variant: release_available gives the size of the press buffer)
release_available_of_press ==
    got' = [got EXCEPT !.n = Len(pressBuf)] /\ UNCHANGED <<coreVars, bufVars>>

release_available ==
    got' = [got EXCEPT !.n = Len(releaseBuf)] /\ UNCHANGED <<coreVars, bufVars>>

longpress_available ==
    got' = [got EXCEPT !.n = Len(longpressBuf)] /\ UNCHANGED <<coreVars, bufVars>>

\* KeypadBlocking::peek_press, peek_release, peek_longpress
\* (variant: peek gives the newest entry)
peek_release_newest ==
    /\ got' = IF releaseBuf = <<>>
              THEN [got EXCEPT !.ok = FALSE]
              ELSE [got EXCEPT !.ok = TRUE, !.r = releaseBuf[Len(releaseBuf)][1],
                                            !.c = releaseBuf[Len(releaseBuf)][2]]
    /\ UNCHANGED <<coreVars, bufVars>>

\* (variant: peek takes the entry out of the buffer)
peek_press_removes ==
    /\ got' = IF pressBuf = <<>>
              THEN [got EXCEPT !.ok = FALSE]
              ELSE [got EXCEPT !.ok = TRUE, !.r = Head(pressBuf)[1], !.c = Head(pressBuf)[2]]
    /\ pressBuf' = IF pressBuf = <<>> THEN pressBuf ELSE Tail(pressBuf)
    /\ UNCHANGED <<coreVars, releaseBuf, longpressBuf>>

peek_press ==
    /\ got' = IF pressBuf = <<>>
              THEN [got EXCEPT !.ok = FALSE]
              ELSE [got EXCEPT !.ok = TRUE, !.r = Head(pressBuf)[1], !.c = Head(pressBuf)[2]]
    /\ UNCHANGED <<coreVars, bufVars>>

peek_release ==
    /\ got' = IF releaseBuf = <<>>
              THEN [got EXCEPT !.ok = FALSE]
              ELSE [got EXCEPT !.ok = TRUE, !.r = Head(releaseBuf)[1], !.c = Head(releaseBuf)[2]]
    /\ UNCHANGED <<coreVars, bufVars>>

\* (variant: peek on an empty buffer stores the zeroed button_coord)
peek_longpress_zeroes ==
    /\ got' = IF longpressBuf = <<>>
              THEN [got EXCEPT !.ok = FALSE, !.r = 0, !.c = 0]
              ELSE [got EXCEPT !.ok = TRUE, !.r = Head(longpressBuf)[1], !.c = Head(longpressBuf)[2]]
    /\ UNCHANGED <<coreVars, bufVars>>

peek_longpress ==
    /\ got' = IF longpressBuf = <<>>
              THEN [got EXCEPT !.ok = FALSE]
              ELSE [got EXCEPT !.ok = TRUE, !.r = Head(longpressBuf)[1], !.c = Head(longpressBuf)[2]]
    /\ UNCHANGED <<coreVars, bufVars>>

\* KeypadBlocking::pop_press, pop_release, pop_longpress: the entry is removed
\* and not given to the caller
pop_press ==
    /\ IF pressBuf = <<>>
       THEN got' = [got EXCEPT !.ok = FALSE] /\ UNCHANGED pressBuf
       ELSE got' = [got EXCEPT !.ok = TRUE] /\ pressBuf' = Tail(pressBuf)
    /\ UNCHANGED <<coreVars, releaseBuf, longpressBuf>>

pop_release ==
    /\ IF releaseBuf = <<>>
       THEN got' = [got EXCEPT !.ok = FALSE] /\ UNCHANGED releaseBuf
       ELSE got' = [got EXCEPT !.ok = TRUE] /\ releaseBuf' = Tail(releaseBuf)
    /\ UNCHANGED <<coreVars, pressBuf, longpressBuf>>

pop_longpress ==
    /\ IF longpressBuf = <<>>
       THEN got' = [got EXCEPT !.ok = FALSE] /\ UNCHANGED longpressBuf
       ELSE got' = [got EXCEPT !.ok = TRUE] /\ longpressBuf' = Tail(longpressBuf)
    /\ UNCHANGED <<coreVars, pressBuf, releaseBuf>>

\* ------------------------------------------------------------ observers

gestureVars == <<trigCol, phase, lastPos, pressesOpen, dropped>>
holdVars == <<age, firm, earlyRel, cleanRel, relAge>>
fifoVars == <<fifo, carried, owed, parked>>

callVars == <<call, up, reg>>

vars == <<coreVars, gestureVars, holdVars, burst, fifoVars, callVars, blockingVars>>

\* The step is an edge on column c
FallOn(c) == ~ColLow(held, c) /\ ColLow(held', c)
RiseOn(c) == ColLow(held, c) /\ ~ColLow(held', c)

\* The step posts an invocation (handlers post, the dispatch loop takes)
Posted == Len(queue') = Len(queue) + 1
PostedInv == queue'[Len(queue')]
PostedKind(k) == Posted /\ PostedInv.kind = k

\* The step is a Tick
Ticked ==
    \/ toRowScan.armed /\ toRowScan'.armed /\ toRowScan'.left < toRowScan.left
    \/ toButtonScan.armed /\ toButtonScan'.armed /\ toButtonScan'.left < toButtonScan.left
    \/ toLongPressed.armed /\ toLongPressed'.armed /\ toLongPressed'.left < toLongPressed.left

\* The step is toRowScan firing
RowScanned == Due(toRowScan) /\ ~toRowScan'.armed

\* The step is toButtonScan firing
ButtonScanned == Due(toButtonScan) /\ ~toButtonScan'.armed

\* The step is toLongPressed firing
LongPressFired == Due(toLongPressed) /\ ~toLongPressed'.armed

\* What the edge, the Timeout or the Quantum of this step makes of the machine
\* when the flags are en; any other step leaves it alone
Expected(en) ==
    LET m == MachineOf
    IN  IF held' # held
        THEN LET k == CHOOSE x \in (held' \ held) \cup (held \ held') : TRUE
             IN  IF k \in held'
                 THEN IF ColLow(held, k[2]) THEN m ELSE fall_handler_of(m, k[2])
                 ELSE IF ColLow(held', k[2]) THEN m ELSE rise_handler_of(m, k[2])
        ELSE IF RowScanned
        THEN row_scan_handler_of([m EXCEPT !.toRowScan = RowScanOff], en, toRowScan.col, sweep')
        ELSE IF ButtonScanned
        THEN button_scan_handler_of([m EXCEPT !.toButtonScan = Off], en, held)
        ELSE IF LongPressFired
        THEN long_press_handler_of([m EXCEPT !.toLongPressed = Off], en)
        ELSE IF Ticked
        THEN [m EXCEPT !.toRowScan = Elapse(@), !.toButtonScan = Elapse(@),
                       !.toLongPressed = Elapse(@)]
        ELSE m

\* The step starts an invocation on thread t
Started(t) == threads[t].cur = <<>> /\ threads'[t].cur # <<>>

Finished(t) == threads[t].cur # <<>> /\ threads'[t].cur = <<>>

Min(a, b) == IF a < b THEN a ELSE b

ObsPhase ==
    /\ phase' = IF PostedKind("press") THEN "pressed"
                ELSE IF PostedKind("longpress") THEN "long"
                ELSE IF PostedKind("release") THEN "idle"
                ELSE phase
    /\ lastPos' = IF PostedKind("press") THEN <<PostedInv.r, PostedInv.c>> ELSE lastPos

ObsGesture ==
    /\ ObsPhase
    /\ trigCol' = IF state = RELEASED /\ \E c \in Cols : FallOn(c)
                  THEN CHOOSE c \in Cols : FallOn(c)
                  ELSE trigCol
    /\ pressesOpen' = IF PostedKind("press") THEN Min(pressesOpen + 1, 2)
                      ELSE IF PostedKind("release") THEN 0
                      ELSE pressesOpen
    /\ dropped' = (dropped \cap held')
                  \cup {k \in held' \ held :
                          /\ state # RELEASED
                          /\ state = PRESS_BOUNCING => k[2] # trigCol}

\* The step opens the contact at lastPos, closed since its Pressed invocation
\* was posted, before LONG_PRESS_THRESH
ReleasedEarly ==
    /\ phase # "idle" /\ ~PostedKind("press")
    /\ firm /\ lastPos \in held /\ lastPos \notin held'
    /\ age < LONG_PRESS_THRESH

ObsHold ==
    /\ age' = IF PostedKind("press") \/ phase' = "idle" THEN 0
              ELSE IF Ticked THEN Min(age + Quantum, LONG_PRESS_THRESH + Quantum)
              ELSE age
    /\ firm' = IF PostedKind("press") THEN lastPos' \in held'
               ELSE IF phase' = "idle" THEN FALSE
               ELSE firm /\ lastPos \in held'
    /\ earlyRel' = IF PostedKind("press") THEN FALSE
                   ELSE IF ReleasedEarly THEN TRUE
                   ELSE earlyRel
    /\ cleanRel' = IF PostedKind("press") THEN FALSE
                   ELSE IF ReleasedEarly THEN ~ColLow(held', lastPos[2])
                   ELSE IF phase # "idle" /\ ColLow(held', lastPos[2]) THEN FALSE
                   ELSE cleanRel
    /\ relAge' = IF ~cleanRel' \/ phase' = "idle" \/ ~cleanRel THEN 0
                 ELSE IF Ticked THEN Min(relAge + Quantum, DEBOUNCE_THRESH + Quantum)
                 ELSE relAge

NoBurst == [live |-> FALSE, key |-> <<0, 0>>, edges |-> 0, steady |-> 0, presses |-> <<>>]

\* A train starts with a contact closing while the machine is RELEASED and no
\* contact is closed; it lives while every edge is of that contact and comes
\* within Quantum of the one before.
ObsBurst ==
    burst' =
        IF held' # held
        THEN IF /\ burst.live /\ burst.steady <= Quantum
                /\ held' \subseteq {burst.key} /\ held \subseteq {burst.key}
             THEN [burst EXCEPT !.edges = Min(@ + 1, 3), !.steady = 0]
             ELSE IF held = {} /\ state = RELEASED
             THEN [live |-> TRUE, key |-> CHOOSE k \in held' : TRUE,
                   edges |-> 1, steady |-> 0, presses |-> <<>>]
             ELSE NoBurst
        ELSE IF ~burst.live THEN NoBurst
        ELSE [burst EXCEPT
                !.steady = IF Ticked THEN Min(@ + Quantum, DEBOUNCE_THRESH + Quantum) ELSE @,
                !.presses = IF PostedKind("press") /\ Len(@) < 2
                            THEN Append(@, <<PostedInv.r, PostedInv.c>>)
                            ELSE @]

ObsFifo ==
    /\ fifo' = IF Posted THEN Append(fifo, PostedInv)
               ELSE IF (\E t \in ThreadIds : Started(t)) /\ fifo # <<>> THEN Tail(fifo)
               ELSE fifo
    /\ carried' = IF appPc = "join" /\ appPc' = "idle" THEN Len(fifo)
                  ELSE IF (\E t \in ThreadIds : Started(t)) /\ carried > 0 THEN carried - 1
                  ELSE carried
    /\ UNCHANGED <<owed, parked>>

\* The call that returns in this step, whether the keypad was initialized when
\* it was made, and what it returns
NoCall == [op |-> "none", was |-> FALSE, ret |-> FALSE]
ObsCall(op) ==
    /\ call' = CASE op = "initialize" ->
                    [op |-> "initialize", was |-> is_initialized, ret |-> initialize_returns]
               [] op = "finalize" /\ ~is_initialized ->
                    [op |-> "finalize", was |-> FALSE, ret |-> finalize_returns]
               [] op = "finalize_joined" ->
                    [op |-> "finalize", was |-> TRUE, ret |-> finalize_joined_returns]
               [] OTHER -> NoCall
    /\ up' = IF call'.ret THEN call'.op = "initialize" ELSE up
    /\ UNCHANGED reg

\* A timer handler takes the transition that classifies an event of kind k
Classified(k) ==
    CASE k = "press" -> state = PRESS_BOUNCING /\ state' = PRESSED
      [] k = "release" -> state = RELEASE_BOUNCING /\ state' = RELEASED
      [] k = "longpress" -> state = PRESSED /\ state' = LONG_PRESSED

\* reg.last[k]: the most recent register/remove call for kind k was a register;
\* reg.skipped: an event of kind reg.kind was classified since that call
NoReg == [op |-> "none", kind |-> "none", last |-> [k \in Kinds |-> FALSE], skipped |-> FALSE]
ObsReg(op, k) ==
    /\ reg' = IF op = "none"
              THEN [reg EXCEPT !.skipped = @ \/ (reg.kind \in Kinds /\ Classified(reg.kind))]
              ELSE [op |-> op, kind |-> k,
                    last |-> [reg.last EXCEPT ![k] = (op = "register")], skipped |-> FALSE]
    /\ UNCHANGED <<call, up>>

ObsOwed ==
    /\ fifo' = IF Posted THEN Append(fifo, PostedInv)
               ELSE IF (\E t \in ThreadIds : Started(t)) /\ fifo # <<>> THEN Tail(fifo)
               ELSE fifo
    /\ owed' = IF appPc = "idle" /\ appPc' = "join" THEN Len(fifo)
               ELSE IF (\E t \in ThreadIds : Started(t)) /\ owed > 0 THEN owed - 1
               ELSE owed
    /\ UNCHANGED <<carried, parked>>

\* An invocation posted while is_initialized() is false waits behind those
\* still in the queue; parked counts it and them until their listeners return
ObsParked ==
    /\ fifo' = IF Posted THEN Append(fifo, PostedInv)
               ELSE IF (\E t \in ThreadIds : Started(t)) /\ fifo # <<>> THEN Tail(fifo)
               ELSE fifo
    /\ parked' = IF Posted /\ ~is_initialized THEN Len(fifo) + 1
                 ELSE IF (\E t \in ThreadIds : Finished(t)) /\ parked > 0 THEN parked - 1
                 ELSE parked
    /\ UNCHANGED <<carried, owed>>

\* One buffer from the push that finds it empty: what was pushed, what the
\* application took by peek then pop, and whether a push came after a pop
NoRound == [kind |-> "press", pushed |-> <<>>, taken |-> <<>>, mixed |-> FALSE]
ObsPush(k, r, c) ==
    /\ round' = IF BufOf(k) = <<>>
                THEN [kind |-> k, pushed |-> <<<<r, c>>>>, taken |-> <<>>, mixed |-> FALSE]
                ELSE [round EXCEPT !.pushed = Append(@, <<r, c>>),
                                   !.mixed = @ \/ round.taken # <<>>]
    /\ peeked' = "none"

ObsPeek(k) ==
    /\ peeked' = IF got'.ok THEN k ELSE "none"
    /\ UNCHANGED round

ObsPop(k) ==
    /\ round' = IF got'.ok /\ k = round.kind
                THEN [round EXCEPT !.taken = Append(@, <<got.r, got.c>>)]
                ELSE round
    /\ peeked' = "none"

\* The buffers at the call of finalize() and what the thread pushes until it
\* returns
NoBufs == [at |-> [k \in Kinds |-> <<>>], during |-> [k \in Kinds |-> <<>>]]
ObsAtCall ==
    bufAtCall' =
        IF appPc = "idle" /\ appPc' = "join"
        THEN [at |-> [k \in Kinds |-> BufOf(k)], during |-> [k \in Kinds |-> <<>>]]
        ELSE IF appPc' = "idle" THEN NoBufs
        ELSE IF \E t \in ThreadIds : Finished(t)
        THEN LET t == CHOOSE u \in ThreadIds : Finished(u)
                 inv == threads[t].cur[1]
             IN  [bufAtCall EXCEPT !.during[inv.kind] = Append(@, <<inv.r, inv.c>>)]
        ELSE bufAtCall

\* One posted invocation, picked when it is posted, followed until its
\* listener has returned: pos is its place among those posted and not started
\* (-1 once it runs, 0 when none is followed)
NoMark == [pos |-> 0, inv |-> [kind |-> "press", r |-> 0, c |-> 0]]
ObsMark ==
    IF mark.pos = 0
    THEN \/ mark' = NoMark
         \/ /\ Posted
            /\ mark' = [pos |-> Len(fifo) + 1,
                        inv |-> [kind |-> PostedInv.kind, r |-> PostedInv.r, c |-> PostedInv.c]]
    ELSE IF mark.pos > 0
    THEN mark' = IF \E t \in ThreadIds : Started(t)
                 THEN [mark EXCEPT !.pos = IF @ = 1 THEN -1 ELSE @ - 1]
                 ELSE mark
    ELSE mark' = IF \E t \in ThreadIds : Finished(t) THEN NoMark ELSE mark

\* Per kind, the coordinates confirmed, in the order of their confirmation,
\* less those the application popped and those a push into a full buffer
\* overwrote
ObsConf ==
    conf' = [k \in Kinds |->
                IF PostedKind(k) THEN Append(conf[k], <<PostedInv.r, PostedInv.c>>)
                ELSE IF Len(BufOfNext(k)) < Len(BufOf(k)) THEN Tail(conf[k])
                ELSE IF /\ \E t \in ThreadIds : Finished(t) /\ threads[t].cur[1].kind = k
                        /\ Len(BufOf(k)) = KEYPAD_BUFFER_LEN
                     THEN Tail(conf[k])
                ELSE conf[k]]

\* The operation made on a buffer in this step, the entries each buffer is
\* owed (a push into a buffer owed KEYPAD_BUFFER_LEN entries overwrites one),
\* and the kind of the last peek that gave an entry, until the next pop
NoPoll == [op |-> "none", kind |-> "press"]
ObsPoll(op, k) ==
    /\ poll' = [op |-> op, kind |-> k]
    /\ live' = [live EXCEPT ![k] =
                    IF op = "push" THEN (IF @ = KEYPAD_BUFFER_LEN THEN @ ELSE @ + 1)
                    ELSE IF op = "pop" /\ got'.ok THEN @ - 1
                    ELSE @]
    /\ peeked' = IF op = "peek" THEN (IF got'.ok THEN k ELSE "none")
                 ELSE IF op = "pop" THEN "none"
                 ELSE peeked
    /\ UNCHANGED round

\* ------------------------------------------------------- specifications

\* After Keypad::Keypad: no listener, no thread, no button down
InitCore ==
    /\ state = RELEASED
    /\ pressedRow = 0
    /\ pressedCol = 0
    /\ toRowScan = RowScanOff
    /\ toButtonScan = Off
    /\ toLongPressed = Off
    /\ cbEnabled = [k \in Kinds |-> FALSE]
    /\ onCb = [k \in Kinds |-> 0]
    /\ threadHandle = 0
    /\ queue = <<>>
    /\ breakReq = FALSE
    /\ threads = [t \in ThreadIds |-> NoThread]
    /\ appPc = "idle"
    /\ held = {}
    /\ sweep = [i \in Rows |-> 0]

\* After KeypadBlocking::KeypadBlocking: the three push listeners registered
InitCoreBlocking ==
    /\ state = RELEASED
    /\ pressedRow = 0
    /\ pressedCol = 0
    /\ toRowScan = RowScanOff
    /\ toButtonScan = Off
    /\ toLongPressed = Off
    /\ cbEnabled = [k \in Kinds |-> TRUE]
    /\ onCb = [k \in Kinds |-> 1]
    /\ threadHandle = 0
    /\ queue = <<>>
    /\ breakReq = FALSE
    /\ threads = [t \in ThreadIds |-> NoThread]
    /\ appPc = "idle"
    /\ held = {}
    /\ sweep = [i \in Rows |-> 0]

\* The buffers of KeypadBlocking are constructed empty
InitBuffers ==
    /\ pressBuf = <<>>
    /\ releaseBuf = <<>>
    /\ longpressBuf = <<>>
    /\ got = NoGot

InitObservers ==
    /\ trigCol = 0
    /\ phase = "idle"
    /\ lastPos = <<0, 0>>
    /\ pressesOpen = 0
    /\ dropped = {}
    /\ age = 0
    /\ firm = FALSE
    /\ earlyRel = FALSE
    /\ cleanRel = FALSE
    /\ relAge = 0
    /\ burst = NoBurst
    /\ fifo = <<>>
    /\ carried = 0
    /\ owed = 0
    /\ parked = 0
    /\ call = NoCall
    /\ up = FALSE
    /\ reg = NoReg
    /\ round = NoRound
    /\ peeked = "none"
    /\ bufAtCall = NoBufs
    /\ mark = NoMark
    /\ conf = [k \in Kinds |-> <<>>]
    /\ poll = NoPoll
    /\ live = [k \in Kinds |-> 0]

\* Nothing is posted and not yet run to its end
Quiet ==
    /\ queue = <<>>
    /\ \A t \in ThreadIds : threads[t].batch = <<>> /\ threads[t].cur = <<>>

\* One button at a time, of two that share neither row nor column
TwoButtons == Cardinality(held') <= 1 /\ held' \subseteq {<<0, 0>>, <<1, 1>>}

\* The program, any schedule: every action of the keypad, of its thread and of
\* its environment
Init == InitCore /\ InitBuffers /\ InitObservers
Next ==
    \/ \E k \in Keys : Close(k)
    \/ \E k \in Keys : Open(k)
    \/ RowScanFires
    \/ ButtonScanFires
    \/ LongPressFires
    \/ Tick
    \/ initialize
    \/ finalize
    \/ finalize_joined
    \/ \E t \in ThreadIds : dequeue(t)
    \/ \E t \in ThreadIds : invoke(t)
    \/ \E t \in ThreadIds : listener_returns(t)
    \/ \E t \in ThreadIds : break_seen(t)
    \/ \E cb \in Listeners : register_onpress(cb)
    \/ remove_onpress
    \/ \E cb \in Listeners : register_onrelease(cb)
    \/ remove_onrelease
    \/ \E cb \in Listeners : register_onlongpress(cb)
    \/ remove_onlongpress
Spec == Init /\ [][Next /\ ObsGesture /\ ObsHold /\ ObsBurst /\ ObsFifo /\ UNCHANGED <<callVars, blockingVars>>]_vars

\* The state machine, with the three listeners of KeypadBlocking registered and
\* the thread of one initialize() that runs what is posted before the next
\* interrupt: the edges and the timers act when nothing posted is waiting. No
\* handler reads what the thread or the API writes.
InitBlocking == InitCoreBlocking /\ InitBuffers /\ InitObservers
AsGesture(A) == A /\ ObsGesture /\ UNCHANGED <<holdVars, burst, fifoVars, callVars, blockingVars>>
NextMachine ==
    \/ \E k \in Keys : AsGesture(Quiet /\ Close(k))
    \/ \E k \in Keys : AsGesture(Quiet /\ Open(k))
    \/ AsGesture(Quiet /\ RowScanFires)
    \/ AsGesture(Quiet /\ ButtonScanFires)
    \/ AsGesture(Quiet /\ LongPressFires)
    \/ AsGesture(Quiet /\ Tick)
    \/ AsGesture(initialize)
    \/ \E t \in ThreadIds : AsGesture(dequeue(t))
    \/ \E t \in ThreadIds : AsGesture(invoke(t))
    \/ \E t \in ThreadIds : AsGesture(listener_returns(t))
SpecMachine == InitBlocking /\ [][NextMachine]_vars

\* The same, observing how long the pressed button is held
AsHold(A) == A /\ ObsPhase /\ ObsHold /\ UNCHANGED <<trigCol, pressesOpen, dropped, burst, fifoVars, callVars, blockingVars>>
NextHold ==
    \/ \E k \in Keys : AsHold(Quiet /\ Close(k))
    \/ \E k \in Keys : AsHold(Quiet /\ Open(k))
    \/ AsHold(Quiet /\ RowScanFires)
    \/ AsHold(Quiet /\ ButtonScanFires)
    \/ AsHold(Quiet /\ LongPressFires)
    \/ AsHold(Quiet /\ Tick)
    \/ AsHold(initialize)
    \/ \E t \in ThreadIds : AsHold(dequeue(t))
    \/ \E t \in ThreadIds : AsHold(invoke(t))
    \/ \E t \in ThreadIds : AsHold(listener_returns(t))
SpecHold == InitBlocking /\ [][NextHold]_vars

\* The same, observing the trains of edges
AsBurst(A) == A /\ ObsBurst /\ UNCHANGED <<gestureVars, holdVars, fifoVars, callVars, blockingVars>>
NextBounce ==
    \/ \E k \in Keys : AsBurst(Quiet /\ Close(k))
    \/ \E k \in Keys : AsBurst(Quiet /\ Open(k))
    \/ AsBurst(Quiet /\ RowScanFires)
    \/ AsBurst(Quiet /\ ButtonScanFires)
    \/ AsBurst(Quiet /\ LongPressFires)
    \/ AsBurst(Quiet /\ Tick)
    \/ AsBurst(initialize)
    \/ \E t \in ThreadIds : AsBurst(dequeue(t))
    \/ \E t \in ThreadIds : AsBurst(invoke(t))
    \/ \E t \in ThreadIds : AsBurst(listener_returns(t))
SpecBounce == InitBlocking /\ [][NextBounce]_vars

\* The dispatch of what one button at a time posts, any schedule of the
\* thread, of initialize() and of finalize()
AsFifo(A) == A /\ ObsFifo /\ UNCHANGED <<gestureVars, holdVars, burst, callVars, blockingVars>>
NextDispatch ==
    \/ \E k \in Keys : AsFifo(Close(k) /\ TwoButtons)
    \/ \E k \in Keys : AsFifo(Open(k))
    \/ AsFifo(RowScanFires)
    \/ AsFifo(ButtonScanFires)
    \/ AsFifo(LongPressFires)
    \/ AsFifo(Tick)
    \/ AsFifo(initialize)
    \/ AsFifo(finalize)
    \/ AsFifo(finalize_joined)
    \/ \E t \in ThreadIds : AsFifo(dequeue(t))
    \/ \E t \in ThreadIds : AsFifo(invoke(t))
    \/ \E t \in ThreadIds : AsFifo(listener_returns(t))
    \/ \E t \in ThreadIds : AsFifo(break_seen(t))
SpecDispatch == InitBlocking /\ [][NextDispatch]_vars

\* The same schedules, observed for what finalize() leaves behind
AsOwed(A) == A /\ ObsOwed /\ UNCHANGED <<gestureVars, holdVars, burst, callVars, blockingVars>>
NextFinalize ==
    \/ \E k \in Keys : AsOwed(Close(k) /\ TwoButtons)
    \/ \E k \in Keys : AsOwed(Open(k))
    \/ AsOwed(RowScanFires)
    \/ AsOwed(ButtonScanFires)
    \/ AsOwed(LongPressFires)
    \/ AsOwed(Tick)
    \/ AsOwed(initialize)
    \/ AsOwed(finalize)
    \/ AsOwed(finalize_joined)
    \/ \E t \in ThreadIds : AsOwed(dequeue(t))
    \/ \E t \in ThreadIds : AsOwed(invoke(t))
    \/ \E t \in ThreadIds : AsOwed(listener_returns(t))
    \/ \E t \in ThreadIds : AsOwed(break_seen(t))
SpecFinalize == InitBlocking /\ [][NextFinalize]_vars

\* ... when the thread is scheduled again and again, every listener returns
\* and join() returns once the thread has ended
SpecFinalizeFair ==
    /\ SpecFinalize
    /\ WF_vars(\E t \in ThreadIds : AsOwed(dequeue(t)))
    /\ WF_vars(\E t \in ThreadIds : AsOwed(invoke(t)))
    /\ WF_vars(\E t \in ThreadIds : AsOwed(listener_returns(t)))
    /\ WF_vars(\E t \in ThreadIds : AsOwed(break_seen(t)))
    /\ WF_vars(AsOwed(finalize_joined))

\* The life cycle: initialize() and finalize() called at any time from one
\* application thread, whatever the keypad and its thread are doing, each
\* return observed
AsCall(op, A) == A /\ ObsCall(op) /\ UNCHANGED <<gestureVars, holdVars, burst, fifoVars, blockingVars>>
NextLifecycle ==
    \/ \E k \in Keys : AsCall("none", Close(k) /\ TwoButtons)
    \/ \E k \in Keys : AsCall("none", Open(k))
    \/ AsCall("none", RowScanFires)
    \/ AsCall("none", ButtonScanFires)
    \/ AsCall("none", LongPressFires)
    \/ AsCall("none", Tick)
    \/ AsCall("initialize", initialize)
    \/ AsCall("finalize", finalize)
    \/ AsCall("finalize_joined", finalize_joined)
    \/ \E t \in ThreadIds : AsCall("none", dequeue(t))
    \/ \E t \in ThreadIds : AsCall("none", invoke(t))
    \/ \E t \in ThreadIds : AsCall("none", listener_returns(t))
    \/ \E t \in ThreadIds : AsCall("none", break_seen(t))
SpecLifecycle == InitBlocking /\ [][NextLifecycle]_vars

\* The buffers of KeypadBlocking alone: its listeners called with any
\* coordinates, one buffer in use at a time and at most KEYPAD_BUFFER_LEN + 1
\* entries pushed before it is empty again; the application takes an entry by
\* peek then pop
OthersEmpty(k) == \A j \in Kinds \ {k} : BufOf(j) = <<>>
AsPush(k, r, c) ==
    /\ OthersEmpty(k)
    /\ BufOf(k) # <<>> => Len(round.pushed) <= KEYPAD_BUFFER_LEN
    /\ PushListener(k, r, c)
    /\ ObsPush(k, r, c)
    /\ UNCHANGED <<coreVars, got, gestureVars, holdVars, burst, fifoVars, callVars, deliveryVars, pollVars>>
AsPeek(k, A) ==
    A /\ ObsPeek(k) /\ UNCHANGED <<gestureVars, holdVars, burst, fifoVars, callVars, deliveryVars, pollVars>>
AsPop(k, A) ==
    /\ peeked = k
    /\ A /\ ObsPop(k)
    /\ UNCHANGED <<gestureVars, holdVars, burst, fifoVars, callVars, deliveryVars, pollVars>>
NextBuffer ==
    \/ \E k \in Kinds, r \in Rows, c \in Cols : AsPush(k, r, c)
    \/ AsPeek("press", peek_press)
    \/ AsPeek("release", peek_release)
    \/ AsPeek("longpress", peek_longpress)
    \/ AsPop("press", pop_press)
    \/ AsPop("release", pop_release)
    \/ AsPop("longpress", pop_longpress)
SpecBuffer == InitBlocking /\ [][NextBuffer]_vars

\* class KeypadBlocking: one of two buttons pressed and released without
\* bounce, the thread running the push listeners at any pace, initialize()
\* and finalize() at any time, and the application popping at any time it is
\* not inside finalize()
Settled == state \in {RELEASED, PRESSED, LONG_PRESSED}
AsKeypad(A) ==
    /\ A /\ ObsAtCall
    /\ UNCHANGED <<bufVars, got, mark, conf>>
    /\ UNCHANGED <<gestureVars, holdVars, burst, fifoVars, callVars, bufObsVars, pollVars>>
AsBlocking(A) ==
    /\ A /\ ObsAtCall
    /\ UNCHANGED <<mark, conf>>
    /\ UNCHANGED <<gestureVars, holdVars, burst, fifoVars, callVars, bufObsVars, pollVars>>
NextBlocking ==
    \/ \E k \in Keys : AsKeypad(Quiet /\ Settled /\ Close(k) /\ TwoButtons)
    \/ \E k \in Keys : AsKeypad(Quiet /\ Settled /\ Open(k))
    \/ AsKeypad(Quiet /\ RowScanFires)
    \/ AsKeypad(Quiet /\ ButtonScanFires)
    \/ AsKeypad(Quiet /\ LongPressFires)
    \/ AsKeypad(Quiet /\ Tick)
    \/ AsBlocking(blocking_initialize)
    \/ AsBlocking(blocking_finalize)
    \/ AsBlocking(blocking_finalize_joined)
    \/ \E t \in ThreadIds : AsKeypad(dequeue(t))
    \/ \E t \in ThreadIds : AsKeypad(invoke(t))
    \/ \E t \in ThreadIds : AsBlocking(listener_pushes(t))
    \/ \E t \in ThreadIds : AsKeypad(break_seen(t))
    \/ AsBlocking(appPc = "idle" /\ pop_press)
    \/ AsBlocking(appPc = "idle" /\ pop_release)
    \/ AsBlocking(appPc = "idle" /\ pop_longpress)
SpecBlocking == InitBlocking /\ [][NextBlocking]_vars

\* class KeypadBlocking initialized and never finalized: one of two buttons
\* pressed and released without bounce, the edges and the timers acting when
\* nothing posted is waiting, the thread scheduled again and again, the
\* application popping at any time
AsDelivery(A) ==
    /\ A /\ ObsFifo /\ ObsMark /\ ObsConf
    /\ UNCHANGED <<gestureVars, holdVars, burst, callVars, bufObsVars, bufAtCall, pollVars>>
AsDelivered(A) == AsDelivery(A /\ UNCHANGED <<bufVars, got>>)
NextDelivery ==
    \/ \E k \in Keys : AsDelivered(Quiet /\ Settled /\ Close(k) /\ TwoButtons)
    \/ \E k \in Keys : AsDelivered(Quiet /\ Settled /\ Open(k))
    \/ AsDelivered(Quiet /\ RowScanFires)
    \/ AsDelivered(Quiet /\ ButtonScanFires)
    \/ AsDelivered(Quiet /\ LongPressFires)
    \/ AsDelivered(Quiet /\ Tick)
    \/ AsDelivery(blocking_initialize)
    \/ \E t \in ThreadIds : AsDelivered(dequeue(t))
    \/ \E t \in ThreadIds : AsDelivered(invoke(t))
    \/ \E t \in ThreadIds : AsDelivery(listener_pushes(t))
    \/ AsDelivery(pop_press)
    \/ AsDelivery(pop_release)
    \/ AsDelivery(pop_longpress)
SpecDelivery ==
    /\ InitBlocking /\ [][NextDelivery]_vars
    /\ WF_vars(\E t \in ThreadIds : AsDelivered(dequeue(t)))
    /\ WF_vars(\E t \in ThreadIds : AsDelivered(invoke(t)))
    /\ WF_vars(\E t \in ThreadIds : AsDelivery(listener_pushes(t)))

\* The poll operations of KeypadBlocking called in any order, between pushes
\* of the coordinates of two buttons by the listeners
Diagonal == {<<0, 0>>, <<1, 1>>}
AsPoll(op, k, A) ==
    /\ A /\ ObsPoll(op, k)
    /\ UNCHANGED <<gestureVars, holdVars, burst, fifoVars, callVars, deliveryVars>>
NextPoll ==
    \/ \E k \in Kinds, e \in Diagonal :
          AsPoll("push", k, PushListener(k, e[1], e[2]) /\ UNCHANGED <<coreVars, got>>)
    \/ AsPoll("available", "press", press_available)
    \/ AsPoll("available", "release", release_available)
    \/ AsPoll("available", "longpress", longpress_available)
    \/ AsPoll("peek", "press", peek_press)
    \/ AsPoll("peek", "release", peek_release)
    \/ AsPoll("peek", "longpress", peek_longpress)
    \/ AsPoll("pop", "press", pop_press)
    \/ AsPoll("pop", "release", pop_release)
    \/ AsPoll("pop", "longpress", pop_longpress)
SpecPoll == InitBlocking /\ [][NextPoll]_vars

\* class Keypad, initialized once, with its listeners registered, replaced and
\* removed at any time, one button at a time
AsPlain(A) == A /\ UNCHANGED <<gestureVars, holdVars, burst, fifoVars, callVars, blockingVars>>
NextRegister ==
    \/ \E k \in Keys : AsPlain(Quiet /\ Close(k) /\ TwoButtons)
    \/ \E k \in Keys : AsPlain(Quiet /\ Open(k))
    \/ AsPlain(Quiet /\ RowScanFires)
    \/ AsPlain(Quiet /\ ButtonScanFires)
    \/ AsPlain(Quiet /\ LongPressFires)
    \/ AsPlain(Quiet /\ Tick)
    \/ AsPlain(initialize)
    \/ \E t \in ThreadIds : AsPlain(dequeue(t))
    \/ \E t \in ThreadIds : AsPlain(invoke(t))
    \/ \E t \in ThreadIds : AsPlain(listener_returns(t))
    \/ \E cb \in Listeners : AsPlain(register_onpress(cb))
    \/ AsPlain(remove_onpress)
    \/ \E cb \in Listeners : AsPlain(register_onrelease(cb))
    \/ AsPlain(remove_onrelease)
    \/ \E cb \in Listeners : AsPlain(register_onlongpress(cb))
    \/ AsPlain(remove_onlongpress)
SpecRegister == Init /\ [][NextRegister]_vars

\* class Keypad, initialized once: the three is_on*_registered answers against
\* the history of register_on*/remove_on* calls, one button at a time
AsReg(op, k, A) ==
    A /\ ObsReg(op, k) /\ UNCHANGED <<gestureVars, holdVars, burst, fifoVars, blockingVars>>
NextRemove ==
    \/ \E k \in Keys : AsReg("none", "none", Quiet /\ Settled /\ Close(k) /\ TwoButtons)
    \/ \E k \in Keys : AsReg("none", "none", Quiet /\ Settled /\ Open(k))
    \/ AsReg("none", "none", RowScanFires)
    \/ AsReg("none", "none", ButtonScanFires)
    \/ AsReg("none", "none", LongPressFires)
    \/ AsReg("none", "none", Tick)
    \/ AsReg("none", "none", initialize)
    \/ \E t \in ThreadIds : AsReg("none", "none", dequeue(t))
    \/ \E t \in ThreadIds : AsReg("none", "none", invoke(t))
    \/ \E t \in ThreadIds : AsReg("none", "none", listener_returns(t))
    \/ \E cb \in Listeners : AsReg("register", "press", register_onpress(cb))
    \/ AsReg("remove", "press", remove_onpress)
    \/ \E cb \in Listeners : AsReg("register", "release", register_onrelease(cb))
    \/ AsReg("remove", "release", remove_onrelease)
    \/ \E cb \in Listeners : AsReg("register", "longpress", register_onlongpress(cb))
    \/ AsReg("remove", "longpress", remove_onlongpress)
SpecRemove == Init /\ [][NextRemove]_vars

\* class Keypad with time passing: a Timeout that is due fires, and the clock
\* does not stop while a Timeout is armed. Edges, initialize() and the thread
\* act at any time or never.
NextSettle ==
    \/ \E k \in Keys : AsPlain(Close(k) /\ TwoButtons)
    \/ \E k \in Keys : AsPlain(Open(k))
    \/ AsPlain(RowScanFires)
    \/ AsPlain(ButtonScanFires)
    \/ AsPlain(LongPressFires)
    \/ AsPlain(Tick)
    \/ AsPlain(initialize)
    \/ \E t \in ThreadIds : AsPlain(dequeue(t))
    \/ \E t \in ThreadIds : AsPlain(invoke(t))
    \/ \E t \in ThreadIds : AsPlain(listener_returns(t))
TimersRun ==
    /\ WF_vars(AsPlain(RowScanFires))
    /\ WF_vars(AsPlain(ButtonScanFires))
    /\ WF_vars(AsPlain(LongPressFires))
    /\ WF_vars(AsPlain(Tick))
SpecSettle == InitBlocking /\ [][NextSettle]_vars /\ TimersRun

\* class KeypadBlocking with one button at a time pressed and released without
\* bounce at any time, (0,0) while it is not initialized and (1,1) while it
\* is: the thread, once started, is scheduled again and again and every push
\* listener returns
ThisButton(k) == held = {} /\ k = IF is_initialized THEN <<1, 1>> ELSE <<0, 0>>
AsParked(A) ==
    /\ A /\ ObsParked
    /\ UNCHANGED <<gestureVars, holdVars, burst, callVars, bufObsVars, deliveryVars, pollVars>>
AsParkedKeypad(A) == AsParked(A /\ UNCHANGED <<bufVars, got>>)
NextParked ==
    \/ \E k \in Keys : AsParkedKeypad(Settled /\ Close(k) /\ ThisButton(k))
    \/ \E k \in Keys : AsParkedKeypad(Settled /\ Open(k))
    \/ AsParkedKeypad(RowScanFires)
    \/ AsParkedKeypad(ButtonScanFires)
    \/ AsParkedKeypad(LongPressFires)
    \/ AsParkedKeypad(Tick)
    \/ AsParked(blocking_initialize)
    \/ AsParked(blocking_finalize)
    \/ AsParked(blocking_finalize_joined)
    \/ \E t \in ThreadIds : AsParkedKeypad(dequeue(t))
    \/ \E t \in ThreadIds : AsParkedKeypad(invoke(t))
    \/ \E t \in ThreadIds : AsParked(listener_pushes(t))
    \/ \E t \in ThreadIds : AsParkedKeypad(break_seen(t))
SpecParked ==
    /\ InitBlocking /\ [][NextParked]_vars
    /\ WF_vars(\E t \in ThreadIds : AsParkedKeypad(dequeue(t)))
    /\ WF_vars(\E t \in ThreadIds : AsParkedKeypad(invoke(t)))
    /\ WF_vars(\E t \in ThreadIds : AsParked(listener_pushes(t)))

\* class Keypad constructed with no listener: listeners registered, replaced
\* and removed and the keypad initialized and finalized at any time, one of
\* two buttons pressed and released without bounce
NextCallable ==
    \/ \E k \in Keys : AsPlain(Quiet /\ Settled /\ Close(k) /\ TwoButtons)
    \/ \E k \in Keys : AsPlain(Quiet /\ Settled /\ Open(k))
    \/ AsPlain(Quiet /\ RowScanFires)
    \/ AsPlain(Quiet /\ ButtonScanFires)
    \/ AsPlain(Quiet /\ LongPressFires)
    \/ AsPlain(Quiet /\ Tick)
    \/ AsPlain(initialize)
    \/ AsPlain(finalize)
    \/ AsPlain(finalize_joined)
    \/ \E t \in ThreadIds : AsPlain(dequeue(t))
    \/ \E t \in ThreadIds : AsPlain(invoke(t))
    \/ \E t \in ThreadIds : AsPlain(listener_returns(t))
    \/ \E t \in ThreadIds : AsPlain(break_seen(t))
    \/ \E cb \in Listeners : AsPlain(register_onpress(cb))
    \/ AsPlain(remove_onpress)
    \/ \E cb \in Listeners : AsPlain(register_onrelease(cb))
    \/ AsPlain(remove_onrelease)
    \/ \E cb \in Listeners : AsPlain(register_onlongpress(cb))
    \/ AsPlain(remove_onlongpress)
SpecCallable == Init /\ [][NextCallable]_vars

\* ------------------------------------------------------------------ claims

\* C1: with the three listeners registered, whatever the edges and the timers,
\* two Pressed invocations are never posted without a Released one between them.
C1_NoTwoPressedWithoutReleased == pressesOpen <= 1

\* C1, its case: a Pressed is posted and a second button, pressed meanwhile, is
\* held down
C1_Witness == pressesOpen = 1 /\ state = PRESSED /\ dropped # {}

\* C2 as stated: while the state is not RELEASED, an edge on another column than
\* the one that started the gesture changes neither the state, the pending
\* position nor a timer, and posts nothing.
C2_OtherColumnEdgeChangesNothing ==
    [][(state # RELEASED /\ \E c \in Cols : c # trigCol /\ (FallOn(c) \/ RiseOn(c)))
          => (UNCHANGED <<state, pressedRow, pressedCol, toRowScan, toButtonScan, toLongPressed>>
              /\ ~Posted)]_vars

\* C3 as stated: a Pressed button held down ever since for more than
\* LONG_PRESS_THRESH has had its LongPressed posted, whatever edges arrived
\* meanwhile.
C3_HeldPressIsLongPressed == (firm /\ age > LONG_PRESS_THRESH) => phase = "long"

\* C4 as stated: once the button has been released before LONG_PRESS_THRESH, no
\* LongPressed is posted for that press.
C4_EarlyReleaseNoLongPressed == earlyRel => phase # "long"

\* C4 as amended: once the button has been released before LONG_PRESS_THRESH and
\* its column has stayed high since, Released is posted within DEBOUNCE_THRESH
\* and no LongPressed is posted until the next Pressed.
C4_CleanReleaseNoLongPressed == cleanRel => (phase # "long" /\ relAge <= DEBOUNCE_THRESH)

\* C4, its case: after such a release the Released invocation has been posted
C4_Witness == cleanRel /\ phase = "idle" /\ state = RELEASED

\* C5 as stated: a train of edges of the button at (r, c), each within the
\* debounce period of the one before, then the button held for more than
\* DEBOUNCE_THRESH: exactly one Pressed was posted, and it carries (r, c).
C5_BounceAbsorbed ==
    (burst.live /\ held = {burst.key} /\ burst.steady > DEBOUNCE_THRESH)
        => burst.presses = <<burst.key>>

\* C6: the Pressed invocation carries the column whose falling edge arrived in
\* state RELEASED and the lowest row that read high in the sweep.
C6_PressedIsSweptPosition ==
    phase # "idle" =>
        /\ lastPos[2] = trigCol
        /\ sweep[lastPos[1]] = 1
        /\ \A i \in Rows : i < lastPos[1] => sweep[i] = 0

\* C6, its case: the sweep passed over row 0 and found row 1
C6_Witness == phase = "pressed" /\ lastPos[1] = 1 /\ trigCol = 1 /\ sweep[0] = 0

\* C7: Pressed is posted only after Released (or first), LongPressed only after
\* Pressed and once, Released only after Pressed; LongPressed and Released carry
\* the position of the last Pressed.
C7_GestureOrder ==
    [][/\ PostedKind("press") => phase = "idle"
       /\ PostedKind("longpress") =>
             (phase = "pressed" /\ <<PostedInv.r, PostedInv.c>> = lastPos)
       /\ PostedKind("release") =>
             (phase \in {"pressed", "long"} /\ <<PostedInv.r, PostedInv.c>> = lastPos)]_vars

\* C7, its case: LongPressed was posted and the release is being confirmed
C7_Witness == phase = "long" /\ state = RELEASE_BOUNCING /\ lastPos = <<1, 1>>

\* C8: a falling edge that arrives in another state than RELEASED changes
\* nothing and posts nothing; every Pressed is posted by the row scan armed by a
\* falling edge that arrived in state RELEASED and carries that edge's column;
\* no Pressed is posted on the column of a second button that was pressed while
\* another one was tracked and is held since.
C8_DroppedEdgeNeverPressed ==
    [][/\ (state # RELEASED /\ \E c \in Cols : FallOn(c))
            => (UNCHANGED <<state, pressedRow, pressedCol, toRowScan,
                            toButtonScan, toLongPressed>> /\ ~Posted)
       /\ PostedKind("press")
            => /\ RowScanned
               /\ PostedInv.c = trigCol
               /\ \A k \in dropped : k[2] # PostedInv.c]_vars

\* C8, its case: the first button is released, its Released posted, the second
\* one still held and nothing posted for it
C8_Witness == dropped # {} /\ held = dropped /\ state = RELEASED /\ phase = "idle"

\* C9: every invocation the thread starts is the oldest one posted and not yet
\* started, whatever its kind, and no other invocation is running then; also
\* when a later thread runs what was posted before finalize() returned.
C9_FifoOneAtATime ==
    [][\A t \in ThreadIds : Started(t) =>
          /\ fifo # <<>>
          /\ LET inv == Head(fifo)
                 run == threads'[t].cur[1]
             IN  run.kind = inv.kind /\ run.r = inv.r /\ run.c = inv.c
          /\ \A u \in ThreadIds : threads[u].cur = <<>>]_vars

\* C9, its case: the second thread runs an invocation posted before finalize()
\* returned, another such one waits behind it and a later one behind that
C9_Witness ==
    /\ threads[2].cur # <<>> /\ threads[1].pc = "deleted"
    /\ carried > 0 /\ Len(fifo) > carried

\* C10 as stated: the listener that runs for an invocation is the one that was
\* registered for its kind when the invocation was posted.
C10_DeliveredToListenerAtPost ==
    \A t \in ThreadIds :
        threads[t].cur # <<>> => threads[t].cur[1].listener = threads[t].cur[1].reg

\* C11 as stated: when finalize() returns true the worker has terminated and
\* every invocation posted before finalize() was called has been started by it
\* (and so, the worker having terminated, run to its end): none is left queued.
C11_FinalizeDrains ==
    [][(appPc = "join" /\ appPc' = "idle") =>
          /\ \A t \in ThreadIds : threads'[t].pc \notin {"start", "idle", "run"}
          /\ owed = 0]_vars

\* C12: a finalize() called on an initialized keypad returns after a while,
\* every listener returning, and it does not return while a listener is still
\* running.
C12_FinalizeReturnsAfterListeners ==
    /\ (appPc = "join") ~> (appPc = "idle")
    /\ [][(appPc = "join" /\ appPc' = "idle") =>
             \A t \in ThreadIds : threads[t].cur = <<>>]_vars

\* C12, its case: finalize() waits while a listener is running
C12_Witness ==
    appPc = "join" /\ breakReq /\ \E t \in ThreadIds : threads[t].cur # <<>>

\* C13: initialize() on an initialized keypad returns false, finalize() on a
\* keypad that is not initialized returns false, and neither changes anything
\* of the keypad or of its threads.
C13_MisuseFailsAndChangesNothing ==
    [][(\/ call'.op = "initialize" /\ call'.was
        \/ call'.op = "finalize" /\ ~call'.was) =>
          ~call'.ret /\ UNCHANGED coreVars]_vars

\* C13, its case: finalize() has just returned false on a keypad that was
\* initialized and finalized before
C13_Witness ==
    /\ call.op = "finalize" /\ ~call.was /\ ~call.ret
    /\ \E t \in ThreadIds : threads[t].pc = "deleted"

\* C14: is_initialized() is true exactly when the last call that returned true
\* was an initialize(), and at most one Thread exists at any time.
C14_InitializedIffUp ==
    /\ is_initialized <=> up
    /\ Cardinality({t \in ThreadIds : threads[t].pc \in {"start", "idle", "run", "exited"}}) <= 1

\* C14, its case: initialize(); finalize() has succeeded MaxThreads times over,
\* the last finalize() has just returned true
C14_Witness ==
    /\ \A t \in ThreadIds : threads[t].pc = "deleted"
    /\ call.op = "finalize" /\ call.ret
    /\ ~up

\* C15: when initialize() fails on a keypad that is not initialized (the
\* Thread could not be allocated or started), it returns false, no Thread is
\* left, is_initialized() is false, and a next initialize() can succeed (as
\* long as the model has a thread left to give).
C15_FailedInitializeLeavesNothing ==
    (call.op = "initialize" /\ ~call.was /\ ~call.ret) =>
        /\ ~is_initialized
        /\ \A t \in ThreadIds : threads[t].pc \in {"none", "deleted"}
        /\ FreeThreads # {} => ENABLED (initialize /\ initialize_returns)

\* C15, its case: initialize() has just failed after an earlier
\* initialize(); finalize(), and a thread is left to start
C15_Witness ==
    /\ call.op = "initialize" /\ ~call.was /\ ~call.ret
    /\ threads[1].pc = "deleted"
    /\ FreeThreads # {}

\* C16: no step of initialize() or of finalize(), returning true or false or
\* entering join(), changes a listener, an enabled flag, the machine state,
\* the pending position or one of the three timers.
C16_LifecycleKeepsMachineAndListeners ==
    [][(call'.op # "none" \/ appPc' # appPc) =>
          UNCHANGED <<cbEnabled, onCb, state, pressedRow, pressedCol,
                      toRowScan, toButtonScan, toLongPressed>>]_vars

\* C16, its case: finalize() has just returned true in the middle of a
\* gesture, the button at (1,1) confirmed and the long-press timer running
C16_Witness ==
    /\ call.op = "finalize" /\ call.ret
    /\ state = PRESSED /\ pressedRow = 1 /\ pressedCol = 1
    /\ toLongPressed.armed

\* C18: as long as no more than KEYPAD_BUFFER_LEN entries were pushed since a
\* buffer was empty, what the application took by peek then pop, followed by
\* what the buffer still holds, is what was pushed, in the order of the pushes
\* (so K pushes then K times peek and pop give the K entries and leave the
\* buffer empty).
C18_RoundTrip ==
    Len(round.pushed) <= KEYPAD_BUFFER_LEN =>
        round.taken \o BufOf(round.kind) = round.pushed

\* C18, its case: KEYPAD_BUFFER_LEN entries pushed into the empty long-press
\* buffer, not all the same, then all taken, and the buffer is empty
C18_Witness ==
    /\ round.kind = "longpress"
    /\ Len(round.pushed) = KEYPAD_BUFFER_LEN /\ ~round.mixed
    /\ round.pushed[1] # round.pushed[KEYPAD_BUFFER_LEN]
    /\ round.taken = round.pushed
    /\ longpressBuf = <<>>

\* C19: after KEYPAD_BUFFER_LEN + 1 pushes into an empty buffer with no pop
\* before the last push, what is taken and what the buffer still holds are all
\* the pushed entries but the first, in the order of the pushes.
C19_OverwriteDropsOldest ==
    (Len(round.pushed) = KEYPAD_BUFFER_LEN + 1 /\ ~round.mixed) =>
        round.taken \o BufOf(round.kind) = Tail(round.pushed)

\* C19, its case: the press buffer drained after KEYPAD_BUFFER_LEN + 1 pushes,
\* the first entry pushed unlike the others
C19_Witness ==
    /\ round.kind = "press"
    /\ Len(round.pushed) = KEYPAD_BUFFER_LEN + 1 /\ ~round.mixed
    /\ \A i \in 2..Len(round.pushed) : round.pushed[i] # round.pushed[1]
    /\ Len(round.taken) = KEYPAD_BUFFER_LEN
    /\ pressBuf = <<>>

C21_PeekGivesOldestChangesNothing ==
    [][poll'.op = "peek" =>
          /\ UNCHANGED bufVars
          /\ BufOf(poll'.kind) # <<>> =>
                 /\ got'.ok
                 /\ <<got'.r, got'.c>> = BufOf(poll'.kind)[1]
          /\ (poll.op = "peek" /\ poll.kind = poll'.kind) => got' = got]_vars

\* C21, its case: peek_release has just given (1,1), the older of the two
\* entries of the release buffer
C21_Witness ==
    /\ poll = [op |-> "peek", kind |-> "release"]
    /\ releaseBuf = <<<<1, 1>>, <<0, 0>>>>
    /\ got.ok /\ got.r = 1 /\ got.c = 1

\* C22: a peek or a pop returns false exactly when its buffer is empty, and
\* then no buffer changes and the row and column locations of the caller keep
\* what they held.
C22_EmptyReturnsFalse ==
    [][poll'.op \in {"peek", "pop"} =>
          /\ got'.ok <=> BufOf(poll'.kind) # <<>>
          /\ BufOf(poll'.kind) = <<>> =>
                 /\ UNCHANGED bufVars
                 /\ got'.r = got.r /\ got'.c = got.c]_vars

\* C22, its case: peek_longpress has just returned false on its empty buffer,
\* the locations still hold (1,1) from an earlier peek, and the other two
\* buffers hold entries
C22_Witness ==
    /\ poll = [op |-> "peek", kind |-> "longpress"]
    /\ longpressBuf = <<>> /\ pressBuf # <<>> /\ releaseBuf # <<>>
    /\ ~got.ok /\ got.r = 1 /\ got.c = 1

\* C23: what press_available, release_available or longpress_available
\* returns is the number of entries pushed into its buffer and neither popped
\* nor overwritten, and it lies between 0 and KEYPAD_BUFFER_LEN, as the size of
\* every buffer does at all times.
C23_AvailableCountsLiveEntries ==
    /\ [][poll'.op = "available" =>
             /\ got'.n = live[poll'.kind]
             /\ got'.n \in 0..KEYPAD_BUFFER_LEN]_vars
    /\ [](\A k \in Kinds : Len(BufOf(k)) = live[k] /\ live[k] \in 0..KEYPAD_BUFFER_LEN)

\* C23, its case: release_available has just returned 1, the press buffer
\* being empty and the long-press buffer not
C23_Witness ==
    /\ poll = [op |-> "available", kind |-> "release"]
    /\ got.n = 1 /\ live["release"] = 1
    /\ releaseBuf = <<<<1, 1>>>> /\ pressBuf = <<>> /\ longpressBuf # <<>>

\* C29 as stated: when the application pops a buffer after a peek of that
\* buffer gave an entry, with no pop in between, the entry removed is the one
\* the peek gave, whatever was pushed in between.
C29_PopRemovesWhatPeekGave ==
    [][(poll'.op = "pop" /\ peeked = poll'.kind /\ got'.ok) =>
          BufOf(poll'.kind)[1] = <<got.r, got.c>>]_vars

\* C24: for each kind, is_onX_registered() is true exactly when the most recent
\* register/remove call for that kind was a register; while the most recent call
\* for a kind is a remove (or there was none), a timer handler that classifies an
\* event of that kind posts nothing; a remove_onX with nothing registered leaves
\* every variable of the keypad as it was.
C24_RegisteredIffLastCallRegister ==
    /\ [](\A k \in Kinds : is_registered(k) <=> reg.last[k])
    /\ [][/\ \A k \in Kinds : (Classified(k) /\ ~reg.last[k]) => ~Posted
          /\ (reg'.op = "remove" /\ reg' # reg /\ ~reg'.skipped /\ ~reg.last[reg'.kind])
                => UNCHANGED coreVars]_vars
\* remove_onrelease was the last call, with a listener registered before it, and
\* a release has been confirmed since
C24_Witness ==
    /\ reg.op = "remove" /\ reg.kind = "release" /\ reg.skipped
    /\ onCb["release"] # 0
    /\ state = RELEASED

C27_NoButtonNoPress ==
    [][(RowScanned /\ state = PRESS_BOUNCING /\ ~ColLow(held, toRowScan.col)) =>
          (state' = RELEASED /\ ~PostedKind("press"))]_vars

\* C28: when toButtonScan fires in RELEASE_BOUNCING while the column of the
\* tracked button reads low (the button is still held), the state goes back to
\* PRESSED, nothing is posted and pressedRow/pressedCol stay; when the column
\* reads high the state becomes RELEASED; and a Released invocation is posted
\* only by such a firing with the column high.
C28_StillHeldGoesBackToPressed ==
    [][/\ (ButtonScanned /\ state = RELEASE_BOUNCING) =>
             IF ColLow(held, pressedCol)
             THEN state' = PRESSED /\ ~Posted /\ UNCHANGED <<pressedRow, pressedCol>>
             ELSE state' = RELEASED
       /\ PostedKind("release") =>
             ButtonScanned /\ state = RELEASE_BOUNCING /\ ~ColLow(held, pressedCol)]_vars
\* a long-pressed button whose release debounce ended with the button held
\* again: the state is PRESSED after LongPressed was posted
C28_Witness ==
    /\ state = PRESSED /\ phase = "long"
    /\ <<pressedRow, pressedCol>> \in held
    /\ ~toButtonScan.armed

\* C26: a listener starts only in a step of the thread, which leaves the state
\* machine, its timers and the queue as they were; while a listener executes,
\* every Timeout that is due can fire, every closed contact can open and (the
\* queue bound allowing) every open one can close, and a press, release or long
\* press confirmed meanwhile is posted.
C26_ListenerBlocksNoTransition ==
    /\ [](InListener =>
            /\ Due(toRowScan) => ENABLED AsFifo(RowScanFires)
            /\ Due(toButtonScan) => ENABLED AsFifo(ButtonScanFires)
            /\ Due(toLongPressed) => ENABLED AsFifo(LongPressFires)
            /\ \A k \in held : ENABLED AsFifo(Open(k))
            /\ \A k \in Diagonal :
                  (held = {} /\ InFlight + 3 <= MaxQueue) => ENABLED AsFifo(Close(k) /\ TwoButtons))
    /\ [][/\ \A t \in ThreadIds : Started(t) =>
                (threads[t].pc = "run" /\ UNCHANGED <<envVars, queue>>)
          /\ \A k \in Kinds : (InListener /\ Classified(k)) => PostedKind(k)]_vars
\* the listener of a Released invocation is still executing when the row scan
\* of the next press is due
C26_Witness ==
    /\ \E t \in ThreadIds : threads[t].cur # <<>> /\ threads[t].cur[1].kind = "release"
    /\ state = PRESS_BOUNCING /\ Due(toRowScan)
    /\ ColLow(held, toRowScan.col)

\* C30: from every state in which no contact is closed, unless a contact closes
\* again, the state eventually is RELEASED.
C30_EventuallyReleased ==
    (held = {}) ~> (state = RELEASED \/ held # {})

\* C31 (as stated): toRowScan is armed exactly when the state is PRESS_BOUNCING, toButtonScan
\* exactly when it is RELEASE_BOUNCING, toLongPressed only when it is PRESSED or
\* RELEASE_BOUNCING; and a Timeout that fires is no longer armed.
C31_TimersFollowState ==
    /\ [](/\ toRowScan.armed <=> state = PRESS_BOUNCING
          /\ toButtonScan.armed <=> state = RELEASE_BOUNCING
          /\ toLongPressed.armed => state \in {PRESSED, RELEASE_BOUNCING})
    /\ [][/\ RowScanned => ~toRowScan'.armed
          /\ ButtonScanned => ~toButtonScan'.armed
          /\ (Due(toLongPressed) /\ toLongPressed' # toLongPressed) => ~toLongPressed'.armed]_vars
\* C31 (amended): as above, except that toLongPressed may also be armed in
\* RELEASED or PRESS_BOUNCING when it is due: button_scan_handler found it
\* expired and did not detach it. It then fires without changing the state or
\* posting anything.
C31_TimersFollowStateOrAreDue ==
    /\ [](/\ toRowScan.armed <=> state = PRESS_BOUNCING
          /\ toButtonScan.armed <=> state = RELEASE_BOUNCING
          /\ toLongPressed.armed =>
                \/ state \in {PRESSED, RELEASE_BOUNCING}
                \/ state \in {RELEASED, PRESS_BOUNCING} /\ Due(toLongPressed))
    /\ [][/\ RowScanned => ~toRowScan'.armed
          /\ ButtonScanned => ~toButtonScan'.armed
          /\ (Due(toLongPressed) /\ toLongPressed' # toLongPressed) =>
                /\ ~toLongPressed'.armed
                /\ state # PRESSED => UNCHANGED <<state, queue>>]_vars
\* the release was confirmed at the moment toLongPressed expired: the state is
\* RELEASED and toLongPressed is still to fire
C31_Witness ==
    /\ state = RELEASED /\ Due(toLongPressed)
    /\ ~toRowScan.armed /\ ~toButtonScan.armed
    /\ held = {}

\* C32: in every step the state, pressedRow, pressedCol and the three Timeouts
\* become what the edge or expiry of that step makes of them under any setting
\* of the three enabled flags; a register or remove call changes none of them;
\* and the flag of a kind decides only whether the classified event is posted.
C32_FlagsDecideOnlyPosting ==
    [][/\ \A en \in [Kinds -> BOOLEAN] :
             [Expected(en) EXCEPT !.posts = <<>>] = MachineOf'
       /\ Posted <=> Expected(cbEnabled).posts # <<>>
       /\ Posted => PostedInv.kind = Expected(cbEnabled).posts[1]
       /\ \A k \in Kinds :
             Classified(k) => (Expected([j \in Kinds |-> j = k]).posts = <<k>>
                               /\ Expected([j \in Kinds |-> j # k]).posts = <<>>)]_vars
\* remove_onlongpress was the last call and the long press was classified
\* after it: the state is LONG_PRESSED and nothing was posted for it
C32_Witness ==
    /\ state = LONG_PRESSED
    /\ reg.op = "remove" /\ reg.kind = "longpress" /\ reg.skipped
    /\ ~cbEnabled["longpress"]

C34_InvocationFindsListener ==
    /\ [](\A t \in ThreadIds : threads[t].cur # <<>> => threads[t].cur[1].listener # 0)
    /\ [][/\ \A k \in Kinds : PostedKind(k) => (onCb[k] # 0 /\ cbEnabled[k])
          /\ \A k \in Kinds : onCb[k] # 0 => onCb'[k] # 0]_vars
\* finalize() has been called and waits for the thread, which runs a Pressed
\* invocation after remove_onpress
C34_Witness ==
    /\ appPc = "join"
    /\ \E t \in ThreadIds :
          /\ threads[t].cur # <<>>
          /\ threads[t].cur[1].kind = "press"
          /\ threads[t].cur[1].listener # 0
    /\ ~cbEnabled["press"]

====
